---- MODULE Spec2Model ----
(***************************************************************************)
(* A model of src/main.rs: the natural/Persian key comparator              *)
(* (NaturalString) and the order-4 B-tree insertion (Node, BTree).         *)
(*                                                                         *)
(* A string is a sequence of chars, a char is its Unicode code point.      *)
(* An Ordering is one of "Less", "Equal", "Greater".                       *)
(* Indexes are 0-based as in the source; Seq access adds one.              *)
(***************************************************************************)
EXTENDS Integers, Sequences, FiniteSets, TLC

VARIABLES
    tree,      \* BTree<NaturalString>: the record [root |-> Node]
    inserted,  \* the set of keys handed to BTree::insert so far
    last,      \* what the last BTree::insert call did (history)
    build,     \* which std binary_search the binary was built with
    a, b, c,   \* operands of the comparator experiment
    res,       \* the Orderings the comparator returned for them
    pc,        \* "tree", or the position of the comparator experiment
    call       \* the BTree::insert call in progress, when run step by step

vars == <<tree, inserted, last, build, a, b, c, res, pc, call>>

(***************************************************************************)
(* 1. NaturalString                                                        *)
(***************************************************************************)

\* The match arms of get_char_weight: code point :> weight.
WeightTable ==
    (1570 :> 1)  @@ (1575 :> 2)  @@ (1576 :> 3)  @@ (1662 :> 4)  @@
    (1578 :> 5)  @@ (1579 :> 6)  @@ (1580 :> 7)  @@ (1670 :> 8)  @@
    (1581 :> 9)  @@ (1582 :> 10) @@ (1583 :> 11) @@ (1584 :> 12) @@
    (1585 :> 13) @@ (1586 :> 14) @@ (1688 :> 15) @@ (1587 :> 16) @@
    (1588 :> 17) @@ (1589 :> 18) @@ (1590 :> 19) @@ (1591 :> 20) @@
    (1592 :> 21) @@ (1593 :> 22) @@ (1594 :> 23) @@ (1601 :> 24) @@
    (1602 :> 25) @@ (1705 :> 26) @@ (1711 :> 27) @@ (1604 :> 28) @@
    (1605 :> 29) @@ (1606 :> 30) @@ (1608 :> 31) @@ (1607 :> 32) @@
    (1740 :> 33)

\* A plausible slip: the table forgotten, every char weighted by code point.
get_char_weight_unicode(ch) == ch + 1000

get_char_weight(ch) ==
    IF ch \in DOMAIN WeightTable THEN WeightTable[ch] ELSE ch + 1000

\* Ord::cmp on two unsigned machine integers (u32 weights, usize lengths).
cmp_uint(x, y) ==
    IF x < y THEN "Less" ELSE IF x > y THEN "Greater" ELSE "Equal"

\* The for loop of compare_persian from index i (0-based) on.
RECURSIVE compare_persian_loop(_, _, _, _)
compare_persian_loop(chars1, chars2, i, len) ==
    IF i >= len
    THEN cmp_uint(Len(chars1), Len(chars2))
    ELSE LET w1 == get_char_weight(chars1[i + 1])
             w2 == get_char_weight(chars2[i + 1])
         IN  IF cmp_uint(w1, w2) = "Equal"
             THEN compare_persian_loop(chars1, chars2, i + 1, len)
             ELSE cmp_uint(w1, w2)

compare_persian(s1, s2) ==
    LET len == IF Len(s1) <= Len(s2) THEN Len(s1) ELSE Len(s2)
    IN  compare_persian_loop(s1, s2, 0, len)

\* ---- str::parse::<i64>() -------------------------------------------------
\* An i64 does not fit a model integer, so a parsed value is kept as
\* [neg, mag]: its sign and the decimal digits of its magnitude without
\* leading zeros (zero is [neg |-> FALSE, mag |-> <<>>]).

IsDigit(ch) == ch >= 48 /\ ch <= 57

\* Decimal digits of i64::MAX = 9223372036854775807 and of |i64::MIN|.
I64MaxDigits == <<9,2,2,3,3,7,2,0,3,6,8,5,4,7,7,5,8,0,7>>
I64MinDigits == <<9,2,2,3,3,7,2,0,3,6,8,5,4,7,7,5,8,0,8>>

\* The same digits as chars ('0' is 48), and "10000000000000000000".
I64MaxDigits_str == [i \in 1..Len(I64MaxDigits) |-> I64MaxDigits[i] + 48]
I64MinDigits_str == [i \in 1..Len(I64MinDigits) |-> I64MinDigits[i] + 48]
TenPow19_str == <<49>> \o [i \in 1..19 |-> 48]

\* Order of two magnitudes (digit sequences without leading zeros).
RECURSIVE cmp_digits_from(_, _, _)
cmp_digits_from(x, y, i) ==
    IF i > Len(x) THEN "Equal"
    ELSE IF x[i] # y[i] THEN cmp_uint(x[i], y[i])
    ELSE cmp_digits_from(x, y, i + 1)

cmp_mag(x, y) ==
    IF Len(x) # Len(y) THEN cmp_uint(Len(x), Len(y)) ELSE cmp_digits_from(x, y, 1)

\* result * 10 + d (or - d when negative) with the checked_mul/checked_add
\* of the parser: overflow when the new magnitude leaves the i64 range.
checked_push(mag, d, neg) ==
    LET m == IF mag = <<>> /\ d = 0 THEN <<>> ELSE Append(mag, d)
        limit == IF neg THEN I64MinDigits ELSE I64MaxDigits
    IN  [overflow |-> cmp_mag(m, limit) = "Greater", mag |-> m]

\* The digit loop of the parser from position i (1-based) on.
RECURSIVE parse_digits(_, _, _, _)
parse_digits(s, i, mag, neg) ==
    IF i > Len(s) THEN [ok |-> TRUE, neg |-> neg /\ mag # <<>>, mag |-> mag]
    ELSE IF ~IsDigit(s[i]) THEN [ok |-> FALSE]
    ELSE LET m == checked_push(mag, s[i] - 48, neg)
         IN  IF m.overflow THEN [ok |-> FALSE]
             ELSE parse_digits(s, i + 1, m.mag, neg)

\* self.0.parse::<i64>(): empty, a lone sign, a non-digit or a value out
\* of range is Err; one leading '+' (43) or '-' (45) is accepted.
parse_i64(s) ==
    IF s = <<>> THEN [ok |-> FALSE]
    ELSE IF Len(s) = 1 /\ s[1] \in {43, 45} THEN [ok |-> FALSE]
    ELSE IF s[1] = 45 THEN parse_digits(s, 2, <<>>, TRUE)
    ELSE IF s[1] = 43 THEN parse_digits(s, 2, <<>>, FALSE)
    ELSE parse_digits(s, 1, <<>>, FALSE)

\* a.cmp(&b) on two i64 values.
cmp_i64(x, y) ==
    IF x.neg /\ ~y.neg THEN "Less"
    ELSE IF ~x.neg /\ y.neg THEN "Greater"
    ELSE IF x.neg THEN cmp_mag(y.mag, x.mag)
    ELSE cmp_mag(x.mag, y.mag)

\* impl Ord for NaturalString
cmp(self, other) ==
    LET a_int == parse_i64(self)
        b_int == parse_i64(other)
    IN  IF a_int.ok /\ b_int.ok
        THEN cmp_i64(a_int, b_int)
        ELSE compare_persian(self, other)

\* derive(PartialEq, Eq) on NaturalString(String): equality of the strings.
eq(self, other) == self = other

(***************************************************************************)
(* 2. Core B-tree logic                                                    *)
(***************************************************************************)

MAX_KEYS == 3

\* Vec::insert(index, element), Vec::remove(index), Vec::split_off(at),
\* with 0-based indexes; split_off returns [left, right].
Vec_insert(v, index, element) ==
    SubSeq(v, 1, index) \o <<element>> \o SubSeq(v, index + 1, Len(v))

Vec_remove(v, index) ==
    [removed |-> v[index + 1],
     vec     |-> SubSeq(v, 1, index) \o SubSeq(v, index + 2, Len(v))]

Vec_split_off(v, at) ==
    [left |-> SubSeq(v, 1, at), right |-> SubSeq(v, at + 1, Len(v))]

\* Node::new
Node_new(keys, children) == [keys |-> keys, children |-> children]

is_leaf(self) == self.children = <<>>

\* The keys the model inserts, as NaturalString values, in the order the
\* bound takes them: "1", "2", "10", "1a", "3", "4", "5", "6", "7", "8",
\* "9".  "1a" does not parse and is compared by weights.
KeyList ==
    <<  <<49>>, <<50>>, <<49, 48>>, <<49, 97>>, <<51>>, <<52>>, <<53>>,
        <<54>>, <<55>>, <<56>>, <<57>>  >>

\* How many keys of KeyList the model inserts.
NKeys == 10

KeyUniverse == {KeyList[i] : i \in 1..NKeys}

\* NaturalString::cmp on the keys of the model.  cmp is a pure function of
\* its operands, so its results are tabulated once instead of being
\* recomputed at every comparison.
key_cmp == [x \in KeyUniverse |-> [y \in KeyUniverse |-> cmp(x, y)]]

\* slice::binary_search as std implemented it up to Rust 1.81: a window
\* [left, right), an early return on Equal.  f(x) is x.cmp(key).
RECURSIVE binary_search_window(_, _, _, _)
binary_search_window(keys, key, left, right) ==
    IF left >= right THEN [found |-> FALSE, idx |-> left]
    ELSE LET size == right - left
             mid  == left + size \div 2
             ord  == key_cmp[keys[mid + 1]][key]
         IN  IF ord = "Equal" THEN [found |-> TRUE, idx |-> mid]
             ELSE IF ord = "Less"
             THEN binary_search_window(keys, key, mid + 1, right)
             ELSE binary_search_window(keys, key, left, mid)

\* slice::binary_search as std implements it since Rust 1.82: a base and
\* a size, no early return, one final comparison at base.
RECURSIVE binary_search_base(_, _, _, _)
binary_search_base(keys, key, base, size) ==
    IF size > 1
    THEN LET half == size \div 2
             mid  == base + half
             ord  == key_cmp[keys[mid + 1]][key]
         IN  binary_search_base(keys, key,
                                IF ord = "Greater" THEN base ELSE mid,
                                size - half)
    ELSE LET ord == key_cmp[keys[base + 1]][key]
         IN  IF ord = "Equal" THEN [found |-> TRUE, idx |-> base]
             ELSE [found |-> FALSE,
                   idx |-> base + (IF ord = "Less" THEN 1 ELSE 0)]

\* self.keys.binary_search(&key): Ok(i) is [found |-> TRUE, idx |-> i],
\* Err(i) is [found |-> FALSE, idx |-> i].  On keys the comparator orders
\* consistently both implementations return the same; elsewhere the result
\* is unspecified and depends on the toolchain the program was built with.
binary_search(keys, key) ==
    IF build = "window"
    THEN binary_search_window(keys, key, 0, Len(keys))
    ELSE IF Len(keys) = 0 THEN [found |-> FALSE, idx |-> 0]
    ELSE binary_search_base(keys, key, 0, Len(keys))

\* Option::None of Node::insert; Some((k, n)) is <<k, n>>.
None == <<>>

\* Slips of split_upper_median: the lower median promoted; the children
\* cut at mid_index instead of mid_index + 1; the sibling of an internal
\* node built without children.
split_upper_median_lower(self) ==
    LET mid_index      == (Len(self.keys) - 1) \div 2
        rem            == Vec_remove(self.keys, mid_index)
        ks             == Vec_split_off(rem.vec, mid_index)
        cs             == Vec_split_off(self.children, mid_index + 1)
    IN  [self         |-> [keys     |-> ks.left,
                           children |-> IF is_leaf(self) THEN self.children
                                        ELSE cs.left],
         promoted_key |-> rem.removed,
         right_node   |-> Node_new(ks.right,
                                   IF is_leaf(self) THEN <<>> ELSE cs.right)]

split_upper_median_cut_at_mid(self) ==
    LET mid_index      == Len(self.keys) \div 2
        rem            == Vec_remove(self.keys, mid_index)
        ks             == Vec_split_off(rem.vec, mid_index)
        cs             == Vec_split_off(self.children, mid_index)
    IN  [self         |-> [keys     |-> ks.left,
                           children |-> IF is_leaf(self) THEN self.children
                                        ELSE cs.left],
         promoted_key |-> rem.removed,
         right_node   |-> Node_new(ks.right,
                                   IF is_leaf(self) THEN <<>> ELSE cs.right)]

split_upper_median_leaf_sibling(self) ==
    LET mid_index      == Len(self.keys) \div 2
        rem            == Vec_remove(self.keys, mid_index)
        ks             == Vec_split_off(rem.vec, mid_index)
        cs             == Vec_split_off(self.children, mid_index + 1)
    IN  [self         |-> [keys     |-> ks.left,
                           children |-> IF is_leaf(self) THEN self.children
                                        ELSE cs.left],
         promoted_key |-> rem.removed,
         right_node   |-> Node_new(ks.right, <<>>)]

\* Node::split_upper_median: [self, promoted_key, right_node], self being
\* the node as the call leaves it.
split_upper_median(self) ==
    LET mid_index      == Len(self.keys) \div 2
        rem            == Vec_remove(self.keys, mid_index)
        promoted_key   == rem.removed
        ks             == Vec_split_off(rem.vec, mid_index)
        right_keys     == ks.right
        cs             == Vec_split_off(self.children, mid_index + 1)
        right_children == IF is_leaf(self) THEN <<>> ELSE cs.right
        left_children  == IF is_leaf(self) THEN self.children ELSE cs.left
    IN  [self         |-> [keys |-> ks.left, children |-> left_children],
         promoted_key |-> promoted_key,
         right_node   |-> Node_new(right_keys, right_children)]

\* A slip of the recursive call: self.insert(key) for child.insert(key).
child_at_self(self, idx) == self

\* let child = &mut self.children[idx]
child_at(self, idx) == self.children[idx + 1]

\* Node::insert.  The result is [self, ret, calls, splits]: the node as
\* the call leaves it, the returned Option, the number of Node::insert
\* calls made (this one and the nested ones), and the log of the
\* split_upper_median calls made, each [before, after, promoted_key,
\* right_node].  The body is cut into the steps of the source; each step
\* hands its values to the next.
RECURSIVE Node_insert(_, _)

\* return Some(self.split_upper_median()), logged.
Node_insert_split(before, sp, calls, splits) ==
    [self   |-> sp.self,
     ret    |-> <<sp.promoted_key, sp.right_node>>,
     calls  |-> calls,
     splits |-> Append(splits,
                       [before       |-> before,
                        after        |-> sp.self,
                        promoted_key |-> sp.promoted_key,
                        right_node   |-> sp.right_node])]

\* if self.keys.len() > MAX_KEYS { return Some(split) } None
Node_insert_overflow(after, calls, splits) ==
    IF Len(after.keys) > MAX_KEYS
    THEN Node_insert_split(after, split_upper_median(after), calls, splits)
    ELSE [self |-> after, ret |-> None, calls |-> calls, splits |-> splits]

\* The else branch: sub is what child.insert(key) left and returned.
Node_insert_absorb(self, idx, sub) ==
    Node_insert_overflow(
        IF sub.ret # None
        THEN [keys     |-> Vec_insert(self.keys, idx, sub.ret[1]),
              children |-> Vec_insert(
                              [self.children EXCEPT ![idx + 1] = sub.self],
                              idx + 1, sub.ret[2])]
        ELSE [self EXCEPT !.children[idx + 1] = sub.self],
        1 + sub.calls,
        sub.splits)

\* The match on the binary search and the leaf / internal branches.
Node_insert_at(self, key, bs) ==
    IF bs.found
    THEN [self |-> self, ret |-> None, calls |-> 1, splits |-> <<>>]
    ELSE IF is_leaf(self)
    THEN Node_insert_overflow(
             [self EXCEPT !.keys = Vec_insert(@, bs.idx, key)], 1, <<>>)
    ELSE Node_insert_absorb(self, bs.idx,
                            Node_insert(child_at(self, bs.idx), key))

Node_insert(self, key) ==
    Node_insert_at(self, key, binary_search(self.keys, key))

\* BTree::new
BTree_new == [root |-> Node_new(<<>>, <<>>)]

\* A slip of BTree::insert: the two children of the new root in the wrong
\* order.
BTree_grow_swapped(r) ==
    [tree   |-> IF r.ret # None
                THEN [root |-> Node_new(<<r.ret[1]>>, <<r.ret[2], r.self>>)]
                ELSE [root |-> r.self],
     ret    |-> r.ret,
     calls  |-> r.calls,
     splits |-> r.splits]

BTree_insert_swapped(self, key) ==
    BTree_grow_swapped(Node_insert(self.root, key))

\* The if let of BTree::insert: r is what self.root.insert(key) left and
\* returned.
BTree_grow(r) ==
    [tree   |-> IF r.ret # None
                THEN [root |-> Node_new(<<r.ret[1]>>, <<r.self, r.ret[2]>>)]
                ELSE [root |-> r.self],
     ret    |-> r.ret,
     calls  |-> r.calls,
     splits |-> r.splits]

\* BTree::insert: [tree, ret, calls, splits], ret being what root.insert
\* returned.
BTree_insert(self, key) == BTree_grow(Node_insert(self.root, key))

\* ---- measures of a tree ---------------------------------------------------

RECURSIVE Concat(_)
Concat(ss) == IF ss = <<>> THEN <<>> ELSE Head(ss) \o Concat(Tail(ss))

\* In-order traversal: child 0's keys, key 0, child 1's keys, key 1, ...
RECURSIVE InOrder(_)
InOrder(n) ==
    IF is_leaf(n) THEN n.keys
    ELSE Concat([i \in 1..Len(n.children) |->
                    InOrder(n.children[i]) \o
                    (IF i <= Len(n.keys) THEN <<n.keys[i]>> ELSE <<>>)])

\* Every node of the subtree at n, as a set.
RECURSIVE Nodes(_)
Nodes(n) ==
    {n} \cup UNION {Nodes(n.children[i]) : i \in 1..Len(n.children)}

Max(S) == CHOOSE x \in S : \A y \in S : y <= x

\* The depths (root = 1) of the leaves below n when n is at depth d.
RECURSIVE LeafDepths(_, _)
LeafDepths(n, d) ==
    IF is_leaf(n) THEN {d}
    ELSE UNION {LeafDepths(n.children[i], d + 1) : i \in 1..Len(n.children)}

\* Height: the number of levels, 1 for a single leaf.
Height(t) == Max(LeafDepths(t.root, 1))

(***************************************************************************)
(* 3. The tree under BTree::insert calls                                   *)
(***************************************************************************)

NoCall ==
    [op |-> "new", key |-> <<>>, pre |-> BTree_new, ret |-> None,
     calls |-> 0, splits |-> <<>>]

\* No BTree::insert call is running.
NoFrame ==
    [phase |-> "idle", key |-> <<>>, node |-> Node_new(<<>>, <<>>),
     stack |-> <<>>, entered |-> 0,
     result |-> [self |-> Node_new(<<>>, <<>>), ret |-> None, calls |-> 0,
                 splits |-> <<>>]]

NoRes == [ab |-> "none", ba |-> "none", bc |-> "none", ac |-> "none",
          aa |-> "none"]

Init ==
    /\ tree = BTree_new
    /\ inserted = {}
    /\ last = NoCall
    /\ build \in {"window", "base"}
    /\ a = <<>> /\ b = <<>> /\ c = <<>>
    /\ res = NoRes
    /\ pc = "tree"
    /\ call = NoFrame

\* The tree as the call r left it, and the record of the call.
Written(key, r) ==
    /\ tree' = r.tree
    /\ last' = [op |-> "insert", key |-> key, pre |-> tree,
                ret |-> r.ret, calls |-> r.calls, splits |-> r.splits]

\* tree.write().insert(NaturalString(current_val)) of handle_insert.
Insert(key) ==
    /\ pc = "tree"
    /\ Written(key, BTree_insert(tree, key))
    /\ inserted' = inserted \cup {key}
    /\ UNCHANGED <<build, a, b, c, res, pc, call>>

Next == \E key \in KeyUniverse : Insert(key)

Spec == Init /\ [][Next]_vars

(***************************************************************************)
(* 3b. One BTree::insert call, one Node::insert entry or return at a time  *)
(***************************************************************************)

\* What entering Node::insert on cl.node does, bs being the result of its
\* binary search: it returns at once (key found, or a leaf), or it calls
\* child.insert(key) and waits for it on the stack.
Entered(cl, bs) ==
    IF bs.found \/ is_leaf(cl.node)
    THEN [cl EXCEPT !.phase = "up",
                    !.entered = @ + 1,
                    !.result = Node_insert_at(cl.node, cl.key, bs)]
    ELSE [cl EXCEPT !.phase = "down",
                    !.entered = @ + 1,
                    !.stack = Append(@, [self |-> cl.node, idx |-> bs.idx]),
                    !.node = child_at(cl.node, bs.idx)]

\* BTree::insert is called and enters self.root.insert(key).
Call(key) ==
    /\ pc = "tree"
    /\ call.phase = "idle"
    /\ call' = Entered([NoFrame EXCEPT !.key = key, !.node = tree.root],
                       binary_search(tree.root.keys, key))
    /\ UNCHANGED <<tree, inserted, last, build, a, b, c, res, pc>>

\* The guards of the three steps of a running call.
CanEnter  == call.phase = "down"
CanReturn == call.phase = "up" /\ call.stack # <<>>
CanFinish == call.phase = "up" /\ call.stack = <<>>

\* The child.insert(key) called last enters Node::insert on the child.
Enter ==
    /\ CanEnter
    /\ call' = Entered(call, binary_search(call.node.keys, call.key))
    /\ UNCHANGED <<tree, inserted, last, build, a, b, c, res, pc>>

\* child.insert(key) has returned into the Node::insert call that waits
\* on top of the stack, which absorbs the promotion, splits if it
\* overflows, and returns in its turn.
Return ==
    /\ CanReturn
    /\ call' = [call EXCEPT
                  !.stack = SubSeq(@, 1, Len(@) - 1),
                  !.result = Node_insert_absorb(
                                 call.stack[Len(call.stack)].self,
                                 call.stack[Len(call.stack)].idx,
                                 call.result)]
    /\ UNCHANGED <<tree, inserted, last, build, a, b, c, res, pc>>

\* self.root.insert(key) has returned into BTree::insert, which grows a
\* new root on a promotion and returns.
Finish ==
    /\ CanFinish
    /\ tree' = BTree_grow(call.result).tree
    /\ call' = NoFrame
    /\ UNCHANGED <<inserted, last, build, a, b, c, res, pc>>

Running == Enter \/ Return \/ Finish

NextStep == (\E key \in KeyUniverse : Call(key)) \/ Running

\* A call run step by step leaves the tree that BTree_insert computes in
\* one piece, after as many Node::insert calls and the same splits.
StepsAgreeWithInsert ==
    [][CanFinish =>
         /\ tree' = BTree_insert(tree, call.key).tree
         /\ call.result.calls = BTree_insert(tree, call.key).calls
         /\ call.result.splits = BTree_insert(tree, call.key).splits
         /\ call.result.calls = call.entered]_vars

\* The program is single-threaded and synchronous: a call that has been
\* entered keeps running until it returns.
SpecStep == Init /\ [][NextStep]_vars /\ WF_vars(Running)

(***************************************************************************)
(* 4. The comparator on bounded inputs                                     *)
(***************************************************************************)

\* Chars the generated strings are made of: '-', '0', '1', 'a', U+067E Pe.
Alphabet == {45, 48, 49, 97, 1662}

\* The longest generated string.
MaxLen == 2

\* Strings chosen for the cases of the comparator:
\* "2" "7" "07" "+7" "10" "10a" "2b" "1a" "+" "-7" " 7",
\* Be, Pe, Te, Kaf, Gaf, Arabic Kaf (U+0643, not in the table), Pe Te,
\* i64::MAX, i64::MAX + 1, 10^19, i64::MIN, i64::MIN - 1.
Chosen ==
    {<<50>>, <<55>>, <<48, 55>>, <<43, 55>>, <<49, 48>>, <<49, 48, 97>>,
     <<50, 98>>, <<49, 97>>, <<43>>, <<45, 55>>, <<32, 55>>,
     <<1576>>, <<1662>>, <<1578>>, <<1705>>, <<1711>>, <<1603>>,
     <<1662, 1578>>,
     I64MaxDigits_str, I64MinDigits_str, TenPow19_str,
     <<45>> \o I64MinDigits_str, <<45, 57,50,50,51,51,55,50,48,51,54,56,53,52,55,55,53,56,48,57>>}

\* Every letter of the weight table as a one-letter string.
Letters == {<<ch>> : ch \in DOMAIN WeightTable}

Strings ==
    Chosen \cup Letters \cup
    UNION {[1..n -> Alphabet] : n \in 0..MaxLen}

\* Third operands, for the laws that need three strings: "2", "10", "1a", Pe.
Thirds == {<<50>>, <<49, 48>>, <<49, 97>>, <<1662>>}

InitCmp ==
    /\ a \in Strings /\ b \in Strings /\ c \in Thirds
    /\ res = NoRes
    /\ pc = "start"
    /\ tree = BTree_new /\ inserted = {} /\ last = NoCall /\ build = "base"
    /\ call = NoFrame

\* Calls NaturalString::cmp on the pairs of the three operands.
Compare ==
    /\ pc = "start"
    /\ res' = [ab |-> cmp(a, b), ba |-> cmp(b, a), bc |-> cmp(b, c),
               ac |-> cmp(a, c), aa |-> cmp(a, a)]
    /\ pc' = "done"
    /\ UNCHANGED <<tree, inserted, last, build, a, b, c, call>>

NextCmp == Compare

SpecCmp == InitCmp /\ [][NextCmp]_vars

(***************************************************************************)
(* 5. The ordering rule as the specification words it                      *)
(***************************************************************************)

\* The 33 Persian letters in dictionary order: alef-madda, alef, be, pe,
\* te, se, jim, che, he, khe, dal, zal, re, ze, zhe, sin, shin, sad, zad,
\* ta, za, ain, ghain, fe, qaf, kaf, gaf, lam, mim, nun, vav, he, ye.
PersianAlphabet ==
    <<1570, 1575, 1576, 1662, 1578, 1579, 1580, 1670, 1581, 1582, 1583,
      1584, 1585, 1586, 1688, 1587, 1588, 1589, 1590, 1591, 1592, 1593,
      1594, 1601, 1602, 1705, 1711, 1604, 1605, 1606, 1608, 1607, 1740>>

\* A Persian letter weighs its rank, any other char its code point + 1000.
Rule_weight(ch) ==
    IF \E i \in 1..Len(PersianAlphabet) : PersianAlphabet[i] = ch
    THEN CHOOSE i \in 1..Len(PersianAlphabet) : PersianAlphabet[i] = ch
    ELSE ch + 1000

Rule_unsigned(s) == IF s # <<>> /\ s[1] \in {43, 45} THEN Tail(s) ELSE s

\* s is a base-10 signed integer literal: an optional sign, then digits.
Rule_is_integer(s) ==
    /\ Rule_unsigned(s) # <<>>
    /\ \A i \in 1..Len(Rule_unsigned(s)) : Rule_unsigned(s)[i] \in 48..57

\* The integer a literal denotes: its sign and the digits of its magnitude
\* from the first non-zero one on.
Rule_value(s) ==
    LET u     == Rule_unsigned(s)
        nz    == {i \in 1..Len(u) : u[i] # 48}
        first == IF nz = {} THEN Len(u) + 1
                 ELSE CHOOSE i \in nz : \A j \in nz : i <= j
    IN  [neg |-> s[1] = 45 /\ nz # {},
         mag |-> [i \in 1..(Len(u) + 1 - first) |-> u[first + i - 1] - 48]]

\* x < y on magnitudes: fewer digits, or as many and a smaller digit at
\* the first place where they differ.
Rule_mag_less(x, y) ==
    \/ Len(x) < Len(y)
    \/ /\ Len(x) = Len(y)
       /\ \E i \in 1..Len(x) :
            /\ x[i] < y[i]
            /\ \A j \in 1..(i - 1) : x[j] = y[j]

Rule_int_less(x, y) ==
    \/ x.neg /\ ~y.neg
    \/ ~x.neg /\ ~y.neg /\ Rule_mag_less(x.mag, y.mag)
    \/ x.neg /\ y.neg /\ Rule_mag_less(y.mag, x.mag)

Rule_numeric(x, y) ==
    IF Rule_int_less(x, y) THEN "Less"
    ELSE IF Rule_int_less(y, x) THEN "Greater" ELSE "Equal"

\* The value lies in -2^63 .. 2^63 - 1.
Rule_fits_i64(x) ==
    IF x.neg THEN ~Rule_mag_less(I64MinDigits, x.mag)
    ELSE ~Rule_mag_less(I64MaxDigits, x.mag)

\* The first position, over the shorter length, where the weights differ
\* decides; if none does, the shorter string is first.
Rule_text(s, t) ==
    LET n    == IF Len(s) <= Len(t) THEN Len(s) ELSE Len(t)
        diff == {i \in 1..n : Rule_weight(s[i]) # Rule_weight(t[i])}
    IN  IF diff # {}
        THEN LET i == CHOOSE i \in diff : \A j \in diff : i <= j
             IN  IF Rule_weight(s[i]) < Rule_weight(t[i])
                 THEN "Less" ELSE "Greater"
        ELSE IF Len(s) < Len(t) THEN "Less"
        ELSE IF Len(s) > Len(t) THEN "Greater" ELSE "Equal"

\* The rule with "integer" read as any base-10 signed integer.
Rule_cmp(s, t) ==
    IF Rule_is_integer(s) /\ Rule_is_integer(t)
    THEN Rule_numeric(Rule_value(s), Rule_value(t))
    ELSE Rule_text(s, t)

\* The rule with "integer" read as a base-10 signed integer of 64 bits.
Rule_is_i64(s) == Rule_is_integer(s) /\ Rule_fits_i64(Rule_value(s))

Rule_cmp_i64(s, t) ==
    IF Rule_is_i64(s) /\ Rule_is_i64(t)
    THEN Rule_numeric(Rule_value(s), Rule_value(t))
    ELSE Rule_text(s, t)

Reverse(ord) ==
    IF ord = "Less" THEN "Greater" ELSE IF ord = "Greater" THEN "Less" ELSE ord

(***************************************************************************)
(* 6. Claims about the comparator (checked under SpecCmp)                  *)
(***************************************************************************)

\* C4: NaturalString::cmp is a total, consistent order: cmp(a, a) is
\* Equal, cmp(a, b) is the reverse of cmp(b, a), and cmp(a, b) = Less with
\* cmp(b, c) = Less implies cmp(a, c) = Less.
C4_TotalOrder ==
    pc = "done" =>
        /\ res.aa = "Equal"
        /\ res.ab = Reverse(res.ba)
        /\ (res.ab = "Less" /\ res.bc = "Less" => res.ac = "Less")

\* C5 as stated: cmp agrees with the ordering rule for every pair of
\* strings, numeric order whenever both are base-10 signed integers.
C5_AgreesWithRule == pc = "done" => res.ab = Rule_cmp(a, b)

\* C5 as amended: cmp agrees with the ordering rule for every pair of
\* strings, numeric order when both are base-10 signed integers that fit
\* 64 bits, and the weight rule for every other pair.
C5_AgreesWithRuleI64 == pc = "done" => res.ab = Rule_cmp_i64(a, b)

\* C5's case: "10a" against "2b" was decided by weights ('1' before '2'),
\* not numerically.
C5_Witness ==
    /\ pc = "done"
    /\ a = <<49, 48, 97>> /\ b = <<50, 98>>
    /\ res.ab = "Less"

\* C10: cmp returns Equal if and only if the two strings are the same
\* string (the derived Eq).
C10_EqualIffSame == pc = "done" => (res.ab = "Equal" <=> eq(a, b))

(***************************************************************************)
(* 7. Claims about the tree (checked under Spec)                           *)
(***************************************************************************)

Elems(seq) == {seq[i] : i \in 1..Len(seq)}

\* The keys stored in the tree before and after the last call, in order.
KeysBefore == InOrder(last.pre.root)
KeysAfter  == InOrder(tree.root)

\* C1: after inserting N keys that are pairwise non-equal under the
\* comparator, in any order, the in-order traversal yields exactly those
\* N keys, each once, in strictly ascending comparator order.
C1_SortedOrder ==
    (\A x, y \in inserted : x # y => cmp(x, y) # "Equal") =>
        /\ Len(KeysAfter) = Cardinality(inserted)
        /\ Elems(KeysAfter) = inserted
        /\ \A i, j \in 1..Len(KeysAfter) :
              i < j => cmp(KeysAfter[i], KeysAfter[j]) = "Less"

\* C2: after every completed BTree::insert call every node has at most
\* MAX_KEYS keys and either no children or one child more than keys.
C2_ShapeInvariant ==
    \A n \in Nodes(tree.root) :
        /\ Len(n.keys) <= MAX_KEYS
        /\ Len(n.children) = 0 \/ Len(n.children) = Len(n.keys) + 1

\* C2's case: an insert has grown the tree to three levels and a node
\* holds MAX_KEYS keys.
C2_Witness ==
    /\ last.op = "insert"
    /\ Height(tree) = 3
    /\ \E n \in Nodes(tree.root) : Len(n.keys) = MAX_KEYS

\* C3: inserting a key that compares Equal to a key stored anywhere in
\* the tree leaves the whole tree unchanged, so the tree never stores two
\* keys that compare Equal.
C3_DuplicateNoOp ==
    /\ (last.op = "insert" /\ \E k \in Elems(KeysBefore) :
                                  cmp(k, last.key) = "Equal")
          => tree = last.pre
    /\ \A i, j \in 1..Len(KeysAfter) :
          i # j => cmp(KeysAfter[i], KeysAfter[j]) # "Equal"

\* C6: an insert leaves the height unchanged or raises it by one; by one
\* if and only if root.insert returned a promotion, and then the new root
\* holds the promoted key alone and two children, the old root (the left
\* remainder of its split) first and the new right sibling second; while
\* the root does not overflow a tree of height 1 stays of height 1.
C6_HeightGrowth ==
    last.op = "insert" =>
        LET h0 == Height(last.pre)
            h1 == Height(tree)
        IN  /\ h1 = h0 \/ h1 = h0 + 1
            /\ h1 = h0 + 1 <=> last.ret # None
            /\ last.ret # None =>
                  LET top == last.splits[Len(last.splits)]
                  IN  /\ top.before.keys \in
                            {Vec_insert(last.pre.root.keys, i, k) :
                               i \in 0..MAX_KEYS,
                               k \in {last.key} \cup Elems(KeysBefore)}
                      /\ tree.root.keys = <<last.ret[1]>>
                      /\ last.ret[1] = top.promoted_key
                      /\ Len(tree.root.children) = 2
                      /\ tree.root.children[1] = top.after
                      /\ tree.root.children[2] = last.ret[2]
                      /\ last.ret[2] = top.right_node
            /\ (h0 = 1 /\ last.ret = None) => h1 = 1

\* C6's case: the root, an internal node, split and the height went from
\* two to three.
C6_Witness ==
    /\ last.op = "insert"
    /\ last.ret # None
    /\ Height(last.pre) = 2
    /\ Height(tree) = 3

\* The levels of the subtree at n, along its first children.
RECURSIVE Levels(_)
Levels(n) == IF is_leaf(n) THEN 1 ELSE 1 + Levels(n.children[1])

\* A bound on the steps a running call still takes: an entry and a return
\* for every level at and below call.node, a return for every Node::insert
\* call waiting on the stack.
StepsLeft(cl) ==
    IF cl.phase = "down" THEN Len(cl.stack) + 2 * Levels(cl.node)
    ELSE IF cl.phase = "up" THEN Len(cl.stack) + 1
    ELSE 0

\* C7: every BTree::insert call terminates: while it runs the guard of
\* one of its steps holds, and every step it takes lowers the bound
\* StepsLeft, which is a natural number; and it enters Node::insert at
\* most height-many times, once per level of one root-to-leaf path, and
\* at least once, each Node::insert call splitting at most once.
C7_Terminates ==
    /\ [](call.phase # "idle" =>
            /\ CanEnter \/ CanReturn \/ CanFinish
            /\ call.entered <= Height(tree)
            /\ call.entered = Len(call.stack) + (IF call.phase = "up"
                                                 THEN call.result.calls ELSE 0)
            /\ call.phase = "up" =>
                  /\ call.result.calls >= 1
                  /\ Len(call.result.splits) <= call.result.calls)
    /\ [][call.phase # "idle" =>
            /\ StepsLeft(call') < StepsLeft(call)
            /\ StepsLeft(call') >= 0]_vars

\* C7's case: a call has gone down all three levels of a tree of height
\* 3, has split the leaf, and is about to return to the level above.
C7_Witness ==
    /\ call.phase = "up"
    /\ Height(tree) = 3
    /\ call.entered = 3
    /\ Len(call.stack) = 2

\* C8: split_upper_median is called only on a node of MAX_KEYS + 1 = 4
\* keys k0..k3; the node keeps k0, k1, k2 is promoted, the sibling gets
\* k3; a leaf's sibling has no children, an internal node (5 children)
\* keeps c0, c1, c2 and gives c3, c4 to the sibling.  And 1, 2, 3 make
\* the single leaf [1 2 3], which 4 splits into root [3] over [1 2], [4].
C8_UpperMedianSplit ==
    /\ last.op = "insert" =>
          \A s \in 1..Len(last.splits) :
             LET sp == last.splits[s]
                 k  == sp.before.keys
                 ch == sp.before.children
             IN  /\ Len(k) = MAX_KEYS + 1
                 /\ sp.after.keys = <<k[1], k[2]>>
                 /\ sp.promoted_key = k[3]
                 /\ sp.right_node.keys = <<k[4]>>
                 /\ ch = <<>> =>
                       /\ sp.after.children = <<>>
                       /\ sp.right_node.children = <<>>
                 /\ ch # <<>> =>
                       /\ Len(ch) = MAX_KEYS + 2
                       /\ sp.after.children = <<ch[1], ch[2], ch[3]>>
                       /\ sp.right_node.children = <<ch[4], ch[5]>>
    /\ inserted = {<<49>>, <<50>>, <<51>>} =>
          tree.root = Node_new(<< <<49>>, <<50>>, <<51>> >>, <<>>)
    /\ (/\ last.op = "insert"
        /\ last.key = <<52>>
        /\ last.pre.root = Node_new(<< <<49>>, <<50>>, <<51>> >>, <<>>))
          => tree.root =
               Node_new(<< <<51>> >>,
                        << Node_new(<< <<49>>, <<50>> >>, <<>>),
                           Node_new(<< <<52>> >>, <<>>) >>)

\* C8's case: an internal node with five children was split.
C8_Witness ==
    /\ last.op = "insert"
    /\ \E s \in 1..Len(last.splits) : last.splits[s].before.children # <<>>

\* C9: all leaves are at the same depth, and every node holds at least
\* one key, except the root of a tree into which nothing was inserted.
C9_BalancedNonEmpty ==
    /\ Cardinality(LeafDepths(tree.root, 1)) = 1
    /\ \A n \in Nodes(tree.root) :
          n.keys = <<>> => (n = tree.root /\ inserted = {})

\* C9's case: a tree of three levels, whose root split as an internal node.
C9_Witness ==
    /\ inserted # {}
    /\ Height(tree) = 3
    /\ Len(tree.root.keys) = 1

====
